---- MODULE Spec2Model ----
(***************************************************************************)
(* A model of substack-alerter: src/substack-alerter/bot.py (the Discord   *)
(* client: command handler and the two tasks.loop jobs) and                *)
(* src/substack-alerter/models.py (the SQLAlchemy entities whose           *)
(* constructors fetch the feed and commit on the one global session).      *)
(*                                                                         *)
(* Everything runs on one asyncio event loop, so a handler runs without    *)
(* interruption up to its next await.  update_articles has no await and is *)
(* one step; post_articles suspends in `await self.channel_id.send(...)`   *)
(* once per article, so it is a start step and a step per send outcome.    *)
(* on_message awaits only in its final `return await ...send(msg)`.        *)
(***************************************************************************)
EXTENDS Integers, Sequences, FiniteSets, TLC

(***************************************************************************)
(* Bounds of the model.                                                    *)
(***************************************************************************)
MaxFeedLen == 2      \* entries in one fetched feed
MaxAuthorId == 2     \* largest primary key handed out to an authors row
MaxArticles == 3     \* rows in the articles table
MaxLog == 3          \* embeds recorded in the channel

(***************************************************************************)
(* Configuration read with os.getenv.                                      *)
(***************************************************************************)
OLDEST_POST_DELTA == 30
BOT_OWNER == "owner"

None == "None"

(***************************************************************************)
(* The people who type commands, and what they type.                       *)
(***************************************************************************)
Users == {"owner", "mallory"}
BanTargets == {"mallory"}
Subdomains == {"alice", "bob", "ghost"}

Commands ==
    {<<"!help">>, <<"!list">>, <<"!exit">>,
     <<"!subscribe">>, <<"!unsubscribe">>, <<"!ban">>, <<"!unban">>}
    \cup {<<"!subscribe", s>> : s \in Subdomains}
    \cup {<<"!unsubscribe", s>> : s \in Subdomains}
    \cup {<<"!ban", t>> : t \in BanTargets}
    \cup {<<"!unban", t>> : t \in BanTargets}

(***************************************************************************)
(* The feed transport: feedparser.parse(url).  FeedHeads(s) are the        *)
(* channel headers (`.feed`) a fetch of subdomain s can return: a feed     *)
(* that does not exist has no "title"; one that exists may still lack      *)
(* "copyright".  Two publications of one person carry the same copyright.  *)
(***************************************************************************)
NoKey == "<KeyError>"

FeedHead(title, copyright, image) ==
    [title |-> title, copyright |-> copyright, image |-> image]

FeedHeads(s) ==
    CASE s = "alice" -> {FeedHead(TRUE, "Alice", "alice.png")}
      [] s = "bob"   -> {FeedHead(TRUE, "Bob", "bob.png"),
                         FeedHead(TRUE, "Alice", "bob.png")}
      [] OTHER       -> {FeedHead(FALSE, NoKey, NoKey),
                         FeedHead(TRUE, NoKey, NoKey)}

\* The header behind a command: only !subscribe <subdomain> fetches one.
NoHead == FeedHead(FALSE, NoKey, NoKey)

heads_for(cmd) ==
    IF cmd[1] = "!subscribe" /\ Len(cmd) >= 2 THEN FeedHeads(cmd[2]) ELSE {NoHead}

(***************************************************************************)
(* A feed entry.  `published` is the entry's pubDate: absent (the key is   *)
(* missing and a["published"] raises KeyError), empty (falsy), or a date.  *)
(* There is no clock in the model: a date is given by `age`, the hours     *)
(* elapsed since that instant when the entry is fetched, and `skew`, the   *)
(* hours by which the server's local UTC offset exceeds the offset written *)
(* in the date string.                                                     *)
(***************************************************************************)
Absent == [kind |-> "absent", age |-> 0, skew |-> 0]
Empty == [kind |-> "empty", age |-> 0, skew |-> 0]
Date(age, skew) == [kind |-> "date", age |-> age, skew |-> skew]

Entry(title, published) ==
    [title |-> title, published |-> published, href |-> title]

PostA == Entry("Post A", Date(48, 0))         \* 2 days old
PostB == Entry("Post B", Date(725, 0))        \* 30 days and 5 hours old
OldPost == Entry("Post B", Date(972, -12))    \* 40 days old, server at UTC-12
ComingSoon == Entry("Coming soon", Empty)     \* a scheduled post: no date yet
Placeholder == Entry("Coming soon", Date(48, 0))
Undated == Entry("Post A", Absent)

EntryDomain == {PostA, PostB, OldPost, ComingSoon, Placeholder, Undated}

RECURSIVE SeqsUpTo(_, _)
SeqsUpTo(S, n) ==
    IF n = 0 THEN {<<>>}
    ELSE LET shorter == SeqsUpTo(S, n - 1)
         IN  shorter \cup {Append(q, e) : q \in shorter, e \in S}

Feeds == SeqsUpTo(EntryDomain, MaxFeedLen)

(***************************************************************************)
(* What one call of Author._xml_feed()["entries"] can do: return entries,  *)
(* or raise out of feedparser (a socket error while reading, an OSError),  *)
(* or not come back: feedparser.parse(url) is a blocking call, made with   *)
(* no timeout, on the thread of the event loop.                            *)
(***************************************************************************)
Fetched(entries) == [raised |-> FALSE, hangs |-> FALSE, entries |-> entries]
FetchRaised == [raised |-> TRUE, hangs |-> FALSE, entries |-> <<>>]
FetchHangs == [raised |-> FALSE, hangs |-> TRUE, entries |-> <<>>]

\* The outcomes in which the call comes back.
FetchOutcomes == {Fetched(f) : f \in Feeds} \cup {FetchRaised}

VARIABLES
    authors,         \* table authors: set of rows [id, username, subdomain, thumbnail]
    articles,        \* table articles: rows in primary-key order; the id is the index
    banned,          \* table of banned users: set of discord_username
    session_active,  \* FALSE once a flush failed in commit() and nobody rolled back
    update_loop,     \* the update_articles tasks.loop: "unstarted", "running",
                     \* "failed", or "blocked" inside a fetch that does not return
    post_loop,       \* the post_articles tasks.loop, likewise
    loop_tasks,      \* Loop._task: how many tasks of each loop are not done
    channel_id,      \* self.channel_id: "unset", "channel" or None
    post_run,        \* the suspended post_articles coroutine
    channel_log,     \* embeds the channel has received, oldest first
    out,             \* how the latest on_message call ended
    alive            \* FALSE after exit()

vars == <<authors, articles, banned, session_active, update_loop, post_loop,
          loop_tasks, channel_id, post_run, channel_log, out, alive>>

NoEmbed ==
    [author |-> None, title |-> None,
     article_url |-> [site |-> None, path |-> None],
     thumbnail_url |-> None, published |-> 0]

Idle == [pc |-> "idle", queue |-> <<>>, current |-> 0, embed |-> NoEmbed]

NoTasks == [update |-> 0, post |-> 0]

\* The event loop runs callbacks: the process has not exited and its one
\* thread is not held by a call that never returns.
responsive == alive /\ update_loop # "blocked"

Init ==
    /\ authors = {}
    /\ articles = <<>>
    /\ banned = {}
    /\ session_active = TRUE
    /\ update_loop = "unstarted"
    /\ post_loop = "unstarted"
    /\ loop_tasks = NoTasks
    /\ channel_id = "unset"
    /\ post_run = Idle
    /\ channel_log = <<>>
    /\ out = "start"
    /\ alive = TRUE

(***************************************************************************)
(* models.py: Author.update_articles, the ingestion of one author's feed.  *)
(***************************************************************************)

\* A filter that tests neither the date nor the title.
is_article_always(a) ==
    IF a.published.kind = "absent" THEN "KeyError" ELSE "True"

\* models.py:78, the lambda is_article (main.py:147 is the same test).  The
\* result is "KeyError" when the entry has no "published" key.
is_article(a) ==
    IF a.published.kind = "absent" THEN "KeyError"
    ELSE IF a.published.kind = "empty" THEN "False"
    ELSE IF a.title # "Coming soon" THEN "True" ELSE "False"

\* models.py:85-86.  parser.parse(...).replace(tzinfo=None) keeps the digits of
\* the date string and drops its UTC offset; datetime.now() is the server's
\* local wall clock.  Their difference is the true age plus the skew, and
\* timedelta.days is that difference in whole days, rounded down.
posted_delta_days(published) == (published.age + published.skew) \div 24

\* models.py:88
too_old(a) == posted_delta_days(a.published) > OLDEST_POST_DELTA

\* An ingestion without the check of models.py:92-94.
title_never_saved(rows, title) == FALSE

\* models.py:92-94: session.query(Article).filter(Article.title == a["title"]).first()
title_is_saved(rows, title) == \E i \in 1..Len(rows) : rows[i].title = title

\* A constructor that takes the flag for granted.
Article_posted(title, url, published, author_id) ==
    [title |-> title, url |-> url, published |-> published,
     posted |-> TRUE, author_id |-> author_id]

\* models.py:121-134, Article.__init__: the row added and committed.
Article(title, url, published, author_id) ==
    [title |-> title, url |-> url, published |-> published,
     posted |-> FALSE, author_id |-> author_id]

\* An ingestion that writes the entry over the row with its title instead of
\* skipping it.
RECURSIVE save_or_overwrite(_, _, _)
save_or_overwrite(rows, articles_list, author_id) ==
    IF articles_list = <<>> THEN rows
    ELSE LET a == Head(articles_list)
             rest == Tail(articles_list)
             row == Article(a.title, a.href, a.published, author_id)
         IN  IF too_old(a) THEN save_or_overwrite(rows, rest, author_id)
             ELSE IF title_is_saved(rows, a.title)
             THEN LET k == CHOOSE i \in 1..Len(rows) : rows[i].title = a.title
                  IN  save_or_overwrite([rows EXCEPT ![k] = row], rest, author_id)
             ELSE save_or_overwrite(Append(rows, row), rest, author_id)

\* models.py:82-103, the loop over articles_list.
RECURSIVE save_new_articles(_, _, _)
save_new_articles(rows, articles_list, author_id) ==
    IF articles_list = <<>> THEN rows
    ELSE LET a == Head(articles_list)
             rest == Tail(articles_list)
         IN  IF too_old(a) THEN save_new_articles(rows, rest, author_id)
             ELSE IF title_is_saved(rows, a.title)
             THEN save_new_articles(rows, rest, author_id)
             ELSE save_new_articles(
                      Append(rows, Article(a.title, a.href, a.published, author_id)),
                      rest, author_id)

\* models.py:66 and models.py:98: the entries come from the feed at
\* http://<subdomain>.substack.com/feed, and a["links"][0]["href"] of each is
\* the address of a page of that site.
links_of(subdomain, entries) ==
    [i \in 1..Len(entries) |->
        [entries[i] EXCEPT !.href = [site |-> subdomain, path |-> entries[i].title]]]

\* models.py:71-103, Author.update_articles on the outcome of its fetch.  The
\* filter runs over the whole feed before anything is saved (list(filter(..))),
\* so an entry without "published" raises before the first insert.
Author_update_articles(rows, author, fetch) ==
    IF fetch.hangs THEN [rows |-> rows, exc |-> "hangs"]
    ELSE IF fetch.raised THEN [rows |-> rows, exc |-> "OSError"]
    ELSE IF \E i \in 1..Len(fetch.entries) : is_article(fetch.entries[i]) = "KeyError"
    THEN [rows |-> rows, exc |-> "KeyError"]
    ELSE LET entries == links_of(author.subdomain, fetch.entries)
             articles_list == SelectSeq(entries, LAMBDA a : is_article(a) = "True")
         IN  [rows |-> save_new_articles(rows, articles_list, author.id), exc |-> "none"]

\* session.query(Author).all(): the rows in primary-key order.
RECURSIVE all_authors(_)
all_authors(rows) ==
    IF rows = {} THEN <<>>
    ELSE LET first == CHOOSE r \in rows : \A o \in rows : r.id <= o.id
         IN  <<first>> \o all_authors(rows \ {first})

\* bot.py:238-239, `for author in authors: author.update_articles()`: the first
\* exception ends the loop, and what was committed before it stays.
RECURSIVE refresh_each(_, _, _)
refresh_each(rows, author_list, fetch) ==
    IF author_list = <<>> THEN [rows |-> rows, exc |-> "none"]
    ELSE LET author == Head(author_list)
             r == Author_update_articles(rows, author, fetch[author.subdomain])
         IN  IF r.exc # "none" THEN r
             ELSE refresh_each(r.rows, Tail(author_list), fetch)

\* discord.ext.tasks.Loop._loop: an exception of Loop._valid_exception (OSError,
\* aiohttp.ClientError, asyncio.TimeoutError, ...) is retried after a backoff;
\* any other exception ends the task for good.  A tick that does not return
\* keeps its task, and the thread.
loop_after(exc) ==
    IF exc \in {"none", "OSError"} THEN "running"
    ELSE IF exc = "hangs" THEN "blocked"
    ELSE "failed"

\* The task that ran the tick is done when the exception ended it.
tasks_after(exc, n) == IF loop_after(exc) = "failed" THEN n - 1 ELSE n

\* bot.py:231-239, one tick of the update_articles loop, each author's fetch
\* ending in one of `outcomes`.
refresh(fetch) ==
    /\ responsive
    /\ update_loop = "running"
    /\ IF ~session_active
       THEN \* session.query(Author).all() raises PendingRollbackError
            /\ update_loop' = loop_after("PendingRollbackError")
            /\ loop_tasks' = [loop_tasks EXCEPT
                                 !.update = tasks_after("PendingRollbackError", @)]
            /\ UNCHANGED articles
       ELSE LET r == refresh_each(articles, all_authors(authors), fetch)
            IN  /\ Len(r.rows) <= MaxArticles
                /\ articles' = r.rows
                /\ update_loop' = loop_after(r.exc)
                /\ loop_tasks' = [loop_tasks EXCEPT
                                     !.update = tasks_after(r.exc, @)]
    /\ UNCHANGED <<authors, banned, session_active, post_loop, channel_id,
                   post_run, channel_log, out, alive>>

update_articles(outcomes) ==
    \E fetch \in [{a.subdomain : a \in authors} -> outcomes] : refresh(fetch)

(***************************************************************************)
(* bot.py: post_articles, the announcement of the unposted articles.       *)
(***************************************************************************)

\* bot.py:247, session.query(Article).filter(Article.posted == false()).all():
\* the ids of the unposted rows, in primary-key order.
RECURSIVE unposted_from(_, _)
unposted_from(rows, i) ==
    IF i > Len(rows) THEN <<>>
    ELSE IF rows[i].posted THEN unposted_from(rows, i + 1)
    ELSE <<i>> \o unposted_from(rows, i + 1)

unposted(rows) == unposted_from(rows, 1)

\* models.py:136-140, Article.get_author: the authors rows with that id (first()
\* gives None when there is none).
get_author(article) == {a \in authors : a.id = article.author_id}

\* bot.py:255, "".join(article.published.split(" ")[:-2]): the time of day and
\* the zone are cut off the end of the date string; the day remains.
strip_time(published) == published.age \div 24

\* embeds.py:35-50
new_article_message(author, title, article_url, thumbnail_url, published) ==
    [author |-> author, title |-> title, article_url |-> article_url,
     thumbnail_url |-> thumbnail_url, published |-> published]

\* bot.py:249-265, the loop body up to the await, for the next article of the
\* list; with the list exhausted the tick is over.
begin_article(rows, queue) ==
    IF queue = <<>> THEN [run |-> Idle, exc |-> "none"]
    ELSE LET article == rows[Head(queue)]
             found == get_author(article)
         IN  IF found = {}
             THEN \* author is None: author.username raises
                  [run |-> Idle, exc |-> "AttributeError"]
             ELSE IF channel_id = None
             THEN \* self.channel_id.send on None
                  [run |-> Idle, exc |-> "AttributeError"]
             ELSE LET author == CHOOSE a \in found : TRUE
                  IN  [run |-> [pc |-> "send",
                                queue |-> Tail(queue),
                                current |-> Head(queue),
                                embed |-> new_article_message(
                                    author.username, article.title, article.url,
                                    author.thumbnail, strip_time(article.published))],
                       exc |-> "none"]

\* bot.py:241-265, a tick of the post_articles loop, up to its first await.
post_articles ==
    /\ responsive
    /\ post_loop = "running"
    /\ post_run.pc = "idle"
    /\ IF ~session_active
       THEN \* the query raises PendingRollbackError
            /\ post_loop' = loop_after("PendingRollbackError")
            /\ loop_tasks' = [loop_tasks EXCEPT
                                 !.post = tasks_after("PendingRollbackError", @)]
            /\ post_run' = Idle
       ELSE LET r == begin_article(articles, unposted(articles))
            IN  /\ post_run' = r.run
                /\ post_loop' = loop_after(r.exc)
                /\ loop_tasks' = [loop_tasks EXCEPT
                                     !.post = tasks_after(r.exc, @)]
    /\ UNCHANGED <<authors, articles, banned, session_active, update_loop,
                   channel_id, channel_log, out, alive>>

\* A post_articles that forgets line 270.
mark_posted_forgets(rows, i) == rows

\* bot.py:270, article.posted = True
mark_posted(rows, i) == [rows EXCEPT ![i].posted = TRUE]

\* bot.py:265-271 and back to 249: the send returned, the article is marked and
\* committed, and the loop goes on to the next article.  commit() on a session
\* whose transaction is inactive raises and writes nothing.
send_returns ==
    /\ responsive
    /\ post_run.pc = "send"
    /\ Len(channel_log) < MaxLog
    /\ channel_log' = Append(channel_log,
                             [id |-> post_run.current, embed |-> post_run.embed])
    /\ IF ~session_active
       THEN /\ UNCHANGED articles
            /\ post_run' = Idle
            /\ post_loop' = loop_after("PendingRollbackError")
            /\ loop_tasks' = [loop_tasks EXCEPT
                                 !.post = tasks_after("PendingRollbackError", @)]
       ELSE LET rows == mark_posted(articles, post_run.current)
                r == begin_article(rows, post_run.queue)
            IN  /\ articles' = rows
                /\ post_run' = r.run
                /\ post_loop' = loop_after(r.exc)
                /\ loop_tasks' = [loop_tasks EXCEPT
                                     !.post = tasks_after(r.exc, @)]
    /\ UNCHANGED <<authors, banned, session_active, update_loop, channel_id,
                   out, alive>>

\* bot.py:265: the send raised (discord.HTTPException: Forbidden, NotFound, a
\* 5xx; or a connection error, an OSError).  Nothing after the await runs.
SendErrors == {"HTTPException", "OSError"}

\* A post_articles that marks the article in a `finally`, sent or not.
send_fails_marks(exc) ==
    /\ responsive
    /\ post_run.pc = "send"
    /\ post_run' = Idle
    /\ post_loop' = loop_after(exc)
    /\ loop_tasks' = [loop_tasks EXCEPT !.post = tasks_after(exc, @)]
    /\ articles' = [articles EXCEPT ![post_run.current].posted = session_active]
    /\ UNCHANGED <<authors, banned, session_active, update_loop,
                   channel_id, channel_log, out, alive>>

send_fails(exc) ==
    /\ responsive
    /\ post_run.pc = "send"
    /\ post_run' = Idle
    /\ post_loop' = loop_after(exc)
    /\ loop_tasks' = [loop_tasks EXCEPT !.post = tasks_after(exc, @)]
    /\ UNCHANGED <<authors, articles, banned, session_active, update_loop,
                   channel_id, channel_log, out, alive>>

\* bot.py:30-43.  discord.py dispatches on_ready after every new gateway
\* session, not only the first.  Loop.start() raises RuntimeError when its task
\* is still running, which ends on_ready there; a task that has ended is
\* started afresh.
\* get_channel gives one of `channels`: the channel, or None when the id is
\* not in the client's cache.
\* A Loop.start() without the check of the task.
Loop_start_unchecked(n) == [tasks |-> n + 1, exc |-> "none"]

\* discord.ext.tasks.Loop.start(): `if self._task is not None and not
\* self._task.done(): raise RuntimeError(...)`, else a new task is created.
Loop_start(n) ==
    IF n >= 1 THEN [tasks |-> n, exc |-> "RuntimeError"]
    ELSE [tasks |-> n + 1, exc |-> "none"]

on_ready(channels) ==
    /\ responsive
    /\ \E ch \in channels : channel_id' = ch
    /\ LET u == Loop_start(loop_tasks.update)
           p == IF u.exc = "none" THEN Loop_start(loop_tasks.post)
                ELSE [tasks |-> loop_tasks.post, exc |-> u.exc]
       IN  /\ loop_tasks' = [update |-> u.tasks, post |-> p.tasks]
           /\ update_loop' = IF u.exc = "none" THEN "running" ELSE update_loop
           /\ post_loop' = IF p.exc = "none" THEN "running" ELSE post_loop
    /\ UNCHANGED <<authors, articles, banned, session_active, post_run,
                   channel_log, out, alive>>

(***************************************************************************)
(* bot.py: on_message, the command handler.  A call ends in one reply      *)
(* (`out` names it), in no reply ("NoReply"), or in an exception that      *)
(* leaves the handler before any reply ("Raised").                         *)
(***************************************************************************)
Result(a, b, s, l, o) ==
    [authors |-> a, banned |-> b, session_active |-> s, alive |-> l, out |-> o]

Ends(o) == Result(authors, banned, session_active, alive, o)

\* The primary key of a new authors row.  The store is SQLite (DB_FILE in
\* main.py): an INTEGER PRIMARY KEY is one more than the largest in the table.
next_author_id == IF authors = {} THEN 1
                  ELSE 1 + (CHOOSE n \in {a.id : a \in authors} :
                                \A a \in authors : a.id <= n)

\* models.py:35-38, the UNIQUE columns of authors.
violates_unique(row) ==
    \E a \in authors : a.subdomain = row.subdomain \/ a.username = row.username

\* bot.py:79-126 with models.py:40-60 (Author.__init__), `head` being the
\* header the feed of `subdomain` returns.
\*  - no "title": ValueError, the reply is its text (bot.py:113-114);
\*  - no "copyright": KeyError, caught by `except Exception` (bot.py:122-123);
\*  - a UNIQUE column taken: commit() raises IntegrityError out of the flush
\*    and leaves the session's transaction inactive; the handler's query at
\*    bot.py:102-106 then raises PendingRollbackError inside the except
\*    clause, and nothing catches that;
\*  - else the row is committed.
subscribe(subdomain, head) ==
    IF subdomain = None THEN Ends("SubscribeUsage")
    ELSE IF ~head.title THEN Ends("NotFound")
    ELSE IF head.copyright = NoKey THEN Ends("Error")
    ELSE LET row == [id |-> next_author_id, username |-> head.copyright,
                     subdomain |-> subdomain, thumbnail |-> head.image]
         IN  IF violates_unique(row)
             THEN Result(authors, banned, FALSE, alive, "Raised")
             ELSE Result(authors \cup {row}, banned, session_active, alive,
                         "Subscribed")

\* bot.py:129-175.  SQLite does not enforce the foreign key of articles, so
\* the delete commits whether or not the author has articles.
unsubscribe(subdomain) ==
    IF subdomain = None THEN Ends("UnsubscribeUsage")
    ELSE LET q == {a \in authors : a.subdomain = subdomain}
         IN  IF q # {}
             THEN Result(authors \ q, banned, session_active, alive, "Unsubscribed")
             ELSE Ends("NoSubscription")

\* The BannedUser entity that bot.py imports is not in models.py.  It is taken
\* as the access-control list of the specification: a set of user names, in
\* which a name is entered once.
BannedUser(name) ==
    IF name \in banned THEN [rows |-> banned, exc |-> "IntegrityError"]
    ELSE [rows |-> banned \cup {name}, exc |-> "none"]

\* bot.py:181-198.  len(cmd) is never below 1, so the usage branch is dead and
\* cmd[1] raises IndexError when the name is missing.
ban(cmd) ==
    IF Len(cmd) < 2 THEN Ends("Raised")
    ELSE LET usr == BannedUser(cmd[2])
         IN  IF usr.exc = "IntegrityError" THEN Ends("AlreadyBanned")
             ELSE Result(authors, usr.rows, session_active, alive, "BanAdded")

\* bot.py:201-224
unban(cmd) ==
    IF Len(cmd) < 2 THEN Ends("Raised")
    ELSE IF cmd[2] \notin banned THEN Ends("NotBanned")
    ELSE Result(authors, banned \ {cmd[2]}, session_active, alive, "Unbanned")

\* bot.py:75, `message.author in ban_list`: message.author is a discord Member
\* and ban_list holds str; Member.__eq__ is False for anything that is not a
\* user object, so no element of the list ever equals the author.
member_eq(member, name) == FALSE

author_in(member, ban_list) == \E name \in ban_list : member_eq(member, name)

\* bot.py:178, str(message.author) == os.getenv("BOT_OWNER")
caller_is_owner(member) == member = BOT_OWNER

\* bot.py:45-229
handle(member, cmd, head) ==
    LET subdomain == IF Len(cmd) >= 2 THEN cmd[2] ELSE None
    IN  IF cmd[1] = "!help" THEN Ends("Help")
        ELSE IF cmd[1] = "!list"
        THEN IF session_active THEN Ends("List") ELSE Ends("Raised")
        ELSE IF ~session_active
        THEN \* bot.py:74, session.query(BannedUser).all() raises
             Ends("Raised")
        ELSE IF author_in(member, banned) THEN Ends("OffLimits")
        ELSE IF cmd[1] = "!subscribe" THEN subscribe(subdomain, head)
        ELSE IF cmd[1] = "!unsubscribe" THEN unsubscribe(subdomain)
        ELSE IF cmd[1] = "!ban" /\ caller_is_owner(member) THEN ban(cmd)
        ELSE IF cmd[1] = "!unban" /\ caller_is_owner(member) THEN unban(cmd)
        ELSE IF cmd[1] = "!exit" /\ caller_is_owner(member)
        THEN Result(authors, banned, session_active, FALSE, "NoReply")
        ELSE Ends("NoReply")

\* bot.py:265 when the process ends during the await: the request of a
\* suspended send has been handed to the transport, and the channel has
\* received the embed or has not; the coroutine is never resumed.
in_flight ==
    IF post_run.pc = "send" /\ Len(channel_log) < MaxLog
    THEN {channel_log,
          Append(channel_log, [id |-> post_run.current, embed |-> post_run.embed])}
    ELSE {channel_log}

\* exit() ends the process: the two tasks, a suspended post_articles, the
\* session and self.channel_id go with it, and the tables stay.  The
\* in-memory variables then hold what a new process starts with.
received(member, cmd, head) ==
    /\ responsive
    /\ LET r == handle(member, cmd, head)
       IN /\ \A a \in r.authors : a.id <= MaxAuthorId
          /\ authors' = r.authors
          /\ banned' = r.banned
          /\ alive' = r.alive
          /\ out' = r.out
          /\ IF r.alive
             THEN /\ session_active' = r.session_active
                  /\ UNCHANGED <<update_loop, post_loop, loop_tasks,
                                 channel_id, post_run, channel_log>>
             ELSE /\ session_active' = TRUE
                  /\ channel_log' \in in_flight
                  /\ update_loop' = "unstarted"
                  /\ post_loop' = "unstarted"
                  /\ loop_tasks' = NoTasks
                  /\ channel_id' = "unset"
                  /\ post_run' = Idle
    /\ UNCHANGED articles

on_message(member, cmd) ==
    \E head \in heads_for(cmd) : received(member, cmd, head)

\* bot.py:282-285: the program is started again, on the tables as they are.
restart ==
    /\ ~alive
    /\ alive' = TRUE
    /\ UNCHANGED <<authors, articles, banned, session_active, update_loop,
                   post_loop, loop_tasks, channel_id, post_run, channel_log, out>>

commands(members, cmds) ==
    \E member \in members, cmd \in cmds : on_message(member, cmd)

(***************************************************************************)
(* The whole program: every command from every user, every feed.           *)
(***************************************************************************)
Next ==
    \/ on_ready({"channel", None})
    \/ restart
    \/ commands(Users, Commands)
    \/ update_articles(FetchOutcomes \cup {FetchHangs})
    \/ post_articles
    \/ send_returns
    \/ \E exc \in SendErrors : send_fails(exc)

Spec == Init /\ [][Next]_vars

(***************************************************************************)
(* The same program on narrower inputs, one specification per part.        *)
(*                                                                         *)
(* SpecAnnounce: the announcement.  The commands that change the registry  *)
(* or end the process, from every user; the two loops and every outcome of *)
(* a send; a fetch brings at most one entry, one the filters let through.  *)
(***************************************************************************)
AnnounceFetches == {Fetched(<<>>), Fetched(<<PostA>>), Fetched(<<PostB>>)}

AnnounceCommands ==
    {<<"!exit">>}
    \cup {<<"!subscribe", s>> : s \in {"alice", "bob"}}
    \cup {<<"!unsubscribe", s>> : s \in {"alice", "bob"}}

NextAnnounce ==
    \/ on_ready({"channel", None})
    \/ commands(Users, AnnounceCommands)
    \/ update_articles(AnnounceFetches)
    \/ post_articles
    \/ send_returns
    \/ \E exc \in SendErrors : send_fails(exc)

SpecAnnounce == Init /\ [][NextAnnounce]_vars

(***************************************************************************)
(* SpecIngest: the ingestion.  The owner subscribes to the two feeds, and  *)
(* the update loop fetches every feed of up to MaxFeedLen entries, or      *)
(* fails to.                                                               *)
(***************************************************************************)
IngestCommands == {<<"!subscribe", s>> : s \in {"alice", "bob"}}

NextIngest ==
    \/ on_ready({"channel"})
    \/ commands({BOT_OWNER}, IngestCommands)
    \/ update_articles(FetchOutcomes)

SpecIngest == Init /\ [][NextIngest]_vars

(***************************************************************************)
(* SpecCommands: the command handler.  Every command from every user,      *)
(* with the loops started and nothing in the feeds.                        *)
(***************************************************************************)
NextCommands ==
    \/ on_ready({"channel", None})
    \/ commands(Users, Commands)

SpecCommands == Init /\ [][NextCommands]_vars

(***************************************************************************)
(* SpecStarve: the loops with a feed server that may not answer.  The      *)
(* owner subscribes to the two feeds; a fetch brings nothing, brings one   *)
(* entry, or does not return; the sends succeed.                           *)
(***************************************************************************)
StarveFetches == {Fetched(<<>>), Fetched(<<PostA>>), Fetched(<<PostB>>), FetchHangs}

NextStarve ==
    \/ on_ready({"channel"})
    \/ commands({BOT_OWNER}, IngestCommands)
    \/ update_articles(StarveFetches)
    \/ post_articles
    \/ send_returns

SpecStarve == Init /\ [][NextStarve]_vars

(***************************************************************************)
(* SpecRefresh: the update loop beside the announcement.  The owner        *)
(* subscribes and unsubscribes, both loops tick, and the sends succeed.    *)
(***************************************************************************)
RefreshCommands ==
    {<<"!subscribe", s>> : s \in {"alice", "bob"}}
    \cup {<<"!unsubscribe", s>> : s \in {"alice", "bob"}}

NextRefresh ==
    \/ on_ready({"channel"})
    \/ commands({BOT_OWNER}, RefreshCommands)
    \/ update_articles(AnnounceFetches)
    \/ post_articles
    \/ send_returns

SpecRefresh == Init /\ [][NextRefresh]_vars

(***************************************************************************)
(* SpecRestart: the announcement across runs of the process.  The owner    *)
(* subscribes to a feed and ends the process with !exit, the process is    *)
(* started again, and the sends succeed.                                   *)
(***************************************************************************)
RestartCommands == {<<"!exit">>, <<"!subscribe", "alice">>}

NextRestart ==
    \/ on_ready({"channel"})
    \/ restart
    \/ commands({BOT_OWNER}, RestartCommands)
    \/ update_articles(AnnounceFetches)
    \/ post_articles
    \/ send_returns

SpecRestart == Init /\ [][NextRestart]_vars

(***************************************************************************)
(* The announcement (SpecAnnounce).                                        *)
(***************************************************************************)
Posted(i) == articles[i].posted

Delivered(i) == \E k \in 1..Len(channel_log) : channel_log[k].id = i

C2_PostedOnlyAfterDelivery ==
    \A i \in 1..Len(articles) : Posted(i) => Delivered(i)

\* One article posted after its delivery and the next one left unposted by a
\* send that raised HTTPException: nothing else ends the loop in this state.
C2_Witness ==
    /\ Len(articles) = 2
    /\ Posted(1) /\ Delivered(1)
    /\ ~Posted(2) /\ ~Delivered(2)
    /\ post_loop = "failed"
    /\ post_run.pc = "idle"
    /\ session_active
    /\ channel_id = "channel"
    /\ get_author(articles[2]) # {}

\* C3: a send that fails leaves its article unposted and leaves the
\* post_articles loop running, so that a later tick sends the article again.
C3_RetriedAfterFailure ==
    [][\A exc \in SendErrors :
          send_fails(exc) =>
              /\ ~articles'[post_run.current].posted
              /\ post_loop' = "running"]_vars

(***************************************************************************)
(* The ingestion (SpecIngest).                                             *)
(***************************************************************************)

\* C4: no two rows of articles have the same author and the same title.
C4_OneArticlePerSourceTitle ==
    \A i, j \in 1..Len(articles) :
        (articles[i].author_id = articles[j].author_id
            /\ articles[i].title = articles[j].title) => i = j

\* Two articles of one author, saved by ticks that went on fetching.
C4_Witness ==
    /\ Len(articles) = 2
    /\ articles[1].author_id = articles[2].author_id
    /\ update_loop = "running"

\* C5: no row of articles comes from an entry without a publication date or
\* from a "Coming soon" placeholder.
C5_NoPlaceholderSaved ==
    \A i \in 1..Len(articles) :
        /\ articles[i].published.kind = "date"
        /\ articles[i].title # "Coming soon"

\* The update loop has ended with the session in order: a feed held an entry
\* without "published" (only the KeyError does that).  An earlier tick saved
\* an article.
C5_Witness ==
    /\ update_loop = "failed"
    /\ session_active
    /\ Len(articles) >= 1

\* C6: no row of articles comes from an entry older than OLDEST_POST_DELTA days
\* when it was fetched, be it by less than a day.  `age` is in hours.
C6_NoStaleArticle ==
    \A i \in 1..Len(articles) :
        articles[i].published.age <= OLDEST_POST_DELTA * 24

\* C7: in a tick where the fetch of one source fails, every source whose own
\* fetch succeeded has its valid and fresh entries in the table afterwards.
fetch_failed(outcome) ==
    \/ outcome.raised
    \/ \E i \in 1..Len(outcome.entries) : is_article(outcome.entries[i]) = "KeyError"

valid_and_fresh(a) == is_article(a) = "True" /\ ~too_old(a)

C7_OtherSourcesStillIngested ==
    [][\A fetch \in [{a.subdomain : a \in authors} -> FetchOutcomes] :
          (/\ session_active
           /\ \E a \in authors : fetch_failed(fetch[a.subdomain])
           /\ refresh(fetch))
          => \A a \in authors :
                ~fetch_failed(fetch[a.subdomain]) =>
                    \A i \in 1..Len(fetch[a.subdomain].entries) :
                        valid_and_fresh(fetch[a.subdomain].entries[i]) =>
                            title_is_saved(articles',
                                           fetch[a.subdomain].entries[i].title)]_vars

(***************************************************************************)
(* The command handler (SpecCommands).                                     *)
(***************************************************************************)

\* C8: !subscribe of a subdomain whose feed has no title leaves the authors
\* table as it was and is answered with the "Unable to find author" reply.
C8_NotFoundLeavesRegistry ==
    [][\A member \in Users, head \in FeedHeads("ghost") :
          (~head.title /\ received(member, <<"!subscribe", "ghost">>, head))
          => (authors' = authors /\ out' = "NotFound")]_vars

\* C9: !subscribe of a subdomain that has a row leaves the authors table as it
\* was and is answered with the "Already subscribed" reply.
C9_DuplicateSubscribe ==
    [][\A member \in Users, s \in Subdomains :
          \A head \in FeedHeads(s) :
              (/\ \E a \in authors : a.subdomain = s
               /\ head.title
               /\ received(member, <<"!subscribe", s>>, head))
              => (authors' = authors /\ out' = "AlreadySubscribed")]_vars

\* C10: !ban and !unban from a user who is not the owner leave the banned
\* table as it was and are answered (with whatever reply).
C10_NonOwnerBanDenied ==
    [][\A member \in Users \ {BOT_OWNER}, name \in BanTargets :
          \A word \in {"!ban", "!unban"} :
              received(member, <<word, name>>, NoHead)
              => (banned' = banned /\ out' \notin {"NoReply", "Raised"})]_vars

\* C11: !subscribe and !unsubscribe from a user whose name is in the banned
\* table are answered with the denial and leave the authors table as it was.
C11_BannedUserRefused ==
    [][\A member \in Users, s \in Subdomains :
          \A word \in {"!subscribe", "!unsubscribe"} :
              \A head \in heads_for(<<word, s>>) :
                  (/\ member \in banned
                   /\ session_active
                   /\ received(member, <<word, s>>, head))
                  => (authors' = authors /\ out' = "OffLimits")]_vars

\* C12: every command, from every user, ends in a reply: the handler neither
\* returns without sending nor is left by an exception.
C12_ExactlyOneReply ==
    [][\A member \in Users, cmd \in Commands :
          \A head \in heads_for(cmd) :
              (session_active /\ received(member, cmd, head))
              => out' \notin {"NoReply", "Raised"}]_vars

\* C13: !subscribe, !unsubscribe, !ban and !unban without their argument end in
\* a usage hint and leave the authors and banned tables as they were.
UsageHints == {"SubscribeUsage", "UnsubscribeUsage", "BanUsage", "UnbanUsage"}

C13_MissingArgumentHint ==
    [][\A member \in Users :
          \A word \in {"!subscribe", "!unsubscribe", "!ban", "!unban"} :
              (/\ session_active
               /\ word \in {"!ban", "!unban"} => caller_is_owner(member)
               /\ received(member, <<word>>, NoHead))
              => (/\ authors' = authors
                  /\ banned' = banned
                  /\ out' \in UsageHints)]_vars

(***************************************************************************)
(* More on the ingestion (SpecIngest).                                     *)
(***************************************************************************)

\* C14: after a tick in which every fetch succeeded, each valid and fresh
\* entry of each author's feed has an article of that author with that title,
\* and every row the tick added is unposted.  An article of another author
\* with the same title does not stand in for it.
C14_EveryNewEntrySaved ==
    [][\A fetch \in [{a.subdomain : a \in authors} -> FetchOutcomes] :
          (/\ session_active
           /\ \A a \in authors : ~fetch_failed(fetch[a.subdomain])
           /\ refresh(fetch))
          => /\ \A a \in authors :
                   \A i \in 1..Len(fetch[a.subdomain].entries) :
                       valid_and_fresh(fetch[a.subdomain].entries[i]) =>
                           \E k \in 1..Len(articles') :
                               /\ articles'[k].author_id = a.id
                               /\ articles'[k].title =
                                      fetch[a.subdomain].entries[i].title
             /\ \A k \in (Len(articles) + 1)..Len(articles') :
                   ~articles'[k].posted]_vars

(***************************************************************************)
(* More on the announcement (SpecAnnounce).                                *)
(***************************************************************************)

\* C15: every row of articles has its author in the authors table.
C15_ArticleHasItsAuthor ==
    \A i \in 1..Len(articles) : get_author(articles[i]) # {}

\* C16: the loops run only once on_ready has run, and a post_articles tick
\* that finds self.channel_id unresolved (None) sends nothing, marks nothing,
\* raises nothing and leaves the loop running.  Only ticks whose articles all
\* have their author are looked at.
C16_UnresolvedChannelIsNoOp ==
    [][/\ (update_loop # "unstarted" \/ post_loop # "unstarted")
              => channel_id # "unset"
       /\ (/\ channel_id = None
           /\ session_active
           /\ \A i \in 1..Len(articles) : get_author(articles[i]) # {}
           /\ post_articles)
          => (/\ post_loop' = "running"
              /\ post_run'.pc = "idle"
              /\ channel_log' = channel_log
              /\ articles' = articles)]_vars

C18_PostedOnlyRises ==
    [][/\ Len(articles') >= Len(articles)
       /\ \A i \in 1..Len(articles) :
             /\ articles'[i] = [articles[i] EXCEPT !.posted = articles'[i].posted]
             /\ articles[i].posted => articles'[i].posted
       /\ \A k \in (Len(articles) + 1)..Len(articles') :
             ~articles'[k].posted]_vars

\* Two articles announced and posted, and their author unsubscribed after.
C18_Witness ==
    /\ Len(articles) = 2
    /\ Posted(1) /\ Posted(2)
    /\ authors = {}
    /\ out = "Unsubscribed"

\* (SpecRefresh.)
\* C19: an update_articles tick only appends to the articles table: it sends
\* nothing, leaves a suspended post_articles alone, and leaves the authors
\* table, the banned table and every existing row of articles as they were.
C19_RefreshOnlyAdds ==
    [][\A fetch \in [{a.subdomain : a \in authors} -> AnnounceFetches] :
          refresh(fetch)
          => /\ channel_log' = channel_log
             /\ post_run' = post_run
             /\ authors' = authors
             /\ banned' = banned
             /\ Len(articles') >= Len(articles)
             /\ \A i \in 1..Len(articles) : articles'[i] = articles[i]]_vars

\* A tick added an article beside one that is posted, for one author, with
\* both loops running.
C19_Witness ==
    /\ Len(articles) = 2
    /\ Posted(1) /\ ~Posted(2)
    /\ articles[1].author_id = articles[2].author_id
    /\ Len(channel_log) = 1
    /\ update_loop = "running"
    /\ post_loop = "running"
    /\ post_run.pc = "idle"

(***************************************************************************)
(* The unresponsive feed (SpecStarve).                                     *)
(***************************************************************************)

\* C20: an update_articles tick in which the fetch of one author does not
\* respond, and every other fetch succeeds, still comes to its end: the loop
\* is running after it, not blocked, so that later ticks and commands run,
\* and the valid and fresh entries of the other authors are in the table.
C20_UnresponsiveFeedDoesNotStarve ==
    [][\A fetch \in [{a.subdomain : a \in authors} -> StarveFetches] :
          (/\ session_active
           /\ \E a \in authors : fetch[a.subdomain].hangs
           /\ refresh(fetch))
          => /\ update_loop' = "running"
             /\ responsive'
             /\ \A a \in authors :
                   \A i \in 1..Len(fetch[a.subdomain].entries) :
                       valid_and_fresh(fetch[a.subdomain].entries[i]) =>
                           title_is_saved(articles',
                                          fetch[a.subdomain].entries[i].title)]_vars

(***************************************************************************)
(* The announcement after unsubscribe, exit and restart.                   *)
(***************************************************************************)

\* C21: with the session in order and the channel resolved, a post_articles
\* tick goes through every unposted article: when it starts it sends the first
\* of them, and each time a send returns it marks that article and sends the
\* next one, until none is left; the loop is running all along.
C21_TickAnnouncesEveryUnposted ==
    [][/\ (/\ session_active
           /\ channel_id = "channel"
           /\ post_articles)
          => /\ post_loop' = "running"
             /\ unposted(articles) # <<>> =>
                   /\ post_run'.pc = "send"
                   /\ post_run'.current = Head(unposted(articles))
       /\ (/\ session_active
           /\ channel_id = "channel"
           /\ send_returns)
          => /\ post_loop' = "running"
             /\ articles'[post_run.current].posted
             /\ post_run.queue # <<>> =>
                   /\ post_run'.pc = "send"
                   /\ post_run'.current = Head(post_run.queue)]_vars

\* C22: with the session in order, an article the channel has received is
\* recorded as posted (unless it is the one a run is sending right now), also
\* after !exit has ended the process during a send; and so the channel does
\* not receive an article twice, restarts included.
C22_DeliveredIsRecordedPosted ==
    /\ session_active =>
          \A i \in 1..Len(articles) :
              (Delivered(i) /\ ~(post_run.pc = "send" /\ post_run.current = i))
                  => Posted(i)
    /\ \A j, k \in 1..Len(channel_log) :
          (channel_log[j].id = channel_log[k].id) => j = k

\* C23: every embed the channel has received carries the name and the icon
\* of the feed its article came from: they are the copyright and the image of
\* a header of the site the article's address points to.
C23_AnnouncedUnderItsSource ==
    \A k \in 1..Len(channel_log) :
        LET embed == channel_log[k].embed
        IN  \E head \in FeedHeads(embed.article_url.site) :
                /\ head.title
                /\ embed.author = head.copyright
                /\ embed.thumbnail_url = head.image

====
